---- MODULE Spec2Model ----
(***************************************************************************)
(* Model of the package body of `surety` (src/src/surety/__init__.py).     *)
(*                                                                         *)
(* The body runs on every import and reload of the package.  It resolves   *)
(* two optional sibling modules with importlib.import_module and, when     *)
(* the resolved object is true, stores it in sys.modules under an alias    *)
(* below the package:                                                      *)
(*     'surety_config.config'  ->  'surety.config'                         *)
(*     'surety_diff'           ->  'surety.diff'                           *)
(*                                                                         *)
(* State: sys.modules restricted to the five names involved, the package   *)
(* namespace (the globals `config` and `diff`), what is installed on the   *)
(* search path, and the position of the body being executed.  History      *)
(* variables record the registry at the start of the running body and what *)
(* each block did, so that properties can relate before and after.         *)
(***************************************************************************)
EXTENDS Naturals, Sequences, FiniteSets, TLC

VARIABLES
    reg,        \* sys.modules: name -> object, or Missing
    ns,         \* globals of the package: "config"/"diff" -> Unset, NoneObj or an object
    loaded,     \* 'surety' in sys.modules
    avail,      \* what the search path holds for each external module
    gen,        \* per external module, how many module objects were created for it
    pc,         \* 0: no body running; i > 0: about to run block Order[i]
    mode,       \* "import" or "reload": how the running body was started
    pre,        \* reg when the last body started
    preNs,      \* ns when the last body started (after a fresh namespace was made)
    preGen,     \* gen when the last body started
    resolved,   \* per descriptor, the outcome of import_module in the last body
    written,    \* per descriptor, whether the last body stored the alias
    outcome,    \* "none", "running", "completed" or "raised"
    stable,     \* nothing but the body changed the state since the last body started
    repeated,   \* the running/last body started in the state the previous one ended in
    inits,      \* bodies started so far
    envSteps    \* environment changes so far

vars == <<reg, ns, loaded, avail, gen, pc, mode, pre, preNs, preGen, resolved,
          written, outcome, stable, repeated, inits, envSteps>>

-----------------------------------------------------------------------------
(* Bounds of the exploration *)

MaxInits == 2
MaxEnvSteps == 2
NumFakes == 2

-----------------------------------------------------------------------------
(* Names and objects *)

Descs == {"config", "diff"}

\* The diff block placed before the config block.
Order_Swapped == <<"diff", "config">>

\* The blocks of the body, in source order.
Order == <<"config", "diff">>

Ext(d) == IF d = "config" THEN "surety_config.config" ELSE "surety_diff"

Alias(d) == IF d = "config" THEN "surety.config" ELSE "surety.diff"

\* import_module imports the parent package of a dotted name first.
HasParent(d) == d = "config"

ParentName == "surety_config"

Names == {ParentName} \cup {Ext(d) : d \in Descs} \cup {Alias(d) : d \in Descs}

Other(d) == IF d = "config" THEN "diff" ELSE "config"

\* Every object is a record of the same shape so that identity is equality.
Obj(k, i) == [kind |-> k, id |-> i]

Missing == Obj("missing", 0)
Unset == Obj("unset", 0)
NoneObj == Obj("none", 0)
Pkg == Obj("package", 0)

\* Objects a caller can put into sys.modules by hand: plain module objects
\* (true) and one object whose truth value is false.
FakeObjs == {Obj("fake", i) : i \in 1..NumFakes} \cup {Obj("falsy", 1)}

\* The module object created by the g-th load of d's external module.
LoadedObj(d, g) == Obj(d, g)

\* Python truth value of what `config` / `diff` can hold.
Truthy(o) == o.kind \in {"fake", "config", "diff", "package"}

\* What the search path can hold for an external module.
\*   absent:      nothing installed
\*   nosub:       (dotted names) the parent package is installed, the submodule is not
\*   ok:          installed, executes
\*   importerror: installed, raises ImportError while executing
\*   error:       installed, raises another exception while executing
AvailOf(d) == {"absent", "ok", "importerror", "error"}
                  \cup (IF HasParent(d) THEN {"nosub"} ELSE {})

Res(k, o) == [kind |-> k, obj |-> o]

NotRun == Res("notrun", Missing)

-----------------------------------------------------------------------------
(* importlib.import_module(Ext(d)) *)

\* A loader that never consults sys.modules and always finds and loads.
ImportModule_NoCache(r, av, g, d) ==
    IF av[d] = "absent"
      THEN [reg |-> r, gen |-> g, res |-> Res("notfound", Missing)]
    ELSE IF av[d] = "ok"
      THEN [reg |-> [r EXCEPT ![Ext(d)] = LoadedObj(d, g[d] + 1)],
            gen |-> [g EXCEPT ![d] = g[d] + 1],
            res |-> Res("ok", LoadedObj(d, g[d] + 1))]
    ELSE [reg |-> r, gen |-> g,
          res |-> Res(IF av[d] = "nosub" THEN "notfound" ELSE av[d], Missing)]

\* Result: the registry and counter afterwards and what the call produced:
\* "ok" with the object, "notfound" (ModuleNotFoundError), "importerror"
\* (ImportError raised by the module's own code) or "error" (anything else).
ImportModule(r, av, g, d) ==
    IF r[Ext(d)] # Missing
      THEN [reg |-> r, gen |-> g, res |-> Res("ok", r[Ext(d)])]
    ELSE IF av[d] = "absent"
      THEN [reg |-> r, gen |-> g, res |-> Res("notfound", Missing)]
    ELSE LET rp == IF HasParent(d) /\ r[ParentName] = Missing
                     THEN [r EXCEPT ![ParentName] = Pkg]
                     ELSE r
         IN CASE av[d] = "nosub" ->
                   [reg |-> rp, gen |-> g, res |-> Res("notfound", Missing)]
              [] av[d] = "importerror" ->
                   [reg |-> rp, gen |-> g, res |-> Res("importerror", Missing)]
              [] av[d] = "error" ->
                   [reg |-> rp, gen |-> g, res |-> Res("error", Missing)]
              [] OTHER ->
                   LET o == LoadedObj(d, g[d] + 1)
                   IN [reg |-> [rp EXCEPT ![Ext(d)] = o],
                       gen |-> [g EXCEPT ![d] = g[d] + 1],
                       res |-> Res("ok", o)]

-----------------------------------------------------------------------------
(* One block of the body: try / except ImportError / if *)

\* No except clause at all.
Caught_Nothing(res) == FALSE

\* `except ImportError`: ModuleNotFoundError is a subclass of ImportError.
Caught(res) == res.kind \in {"notfound", "importerror"}

\* `except ImportError: pass`: the global keeps what it had.
ExceptValue_Keep(old) == old

\* The value the except clause gives the global.
ExceptValue(old) == NoneObj

\* `if config is not None:`
ShouldBind_NotNone(o) == o # NoneObj

\* No `if`: the store is unconditional.
ShouldBind_Always(o) == TRUE

\* `if config:` / `if diff:`
ShouldBind(o) == Truthy(o)

\* Both blocks store under 'surety.diff'.
AliasKey_Shared(d) == Alias("diff")

\* The key the block stores under.
AliasKey(d) == Alias(d)

\* An else branch that takes the alias out of sys.modules.
Unbound_Pop(r, d) == [r EXCEPT ![Alias(d)] = Missing]

\* The `if` has no else branch: a false value leaves sys.modules alone.
Unbound(r, d) == r

\* The block for d run from registry r, namespace n, counter g:
\*     try:    d = importlib.import_module(Ext(d))
\*     except ImportError:    d = None
\*     if d:    sys.modules[Alias(d)] = d
\* An exception the except clause does not catch leaves the block at once.
Block(r, n, av, g, d) ==
    LET im == ImportModule(r, av, g, d)
        res == im.res
        val == IF res.kind = "ok" THEN res.obj ELSE ExceptValue(n[d])
    IN IF res.kind = "ok" \/ Caught(res)
         THEN [reg |-> IF ShouldBind(val)
                         THEN [im.reg EXCEPT ![AliasKey(d)] = val]
                         ELSE Unbound(im.reg, d),
               ns |-> [n EXCEPT ![d] = val],
               gen |-> im.gen, res |-> res,
               written |-> ShouldBind(val), raised |-> FALSE]
         ELSE [reg |-> im.reg, ns |-> n, gen |-> im.gen, res |-> res,
               written |-> FALSE, raised |-> TRUE]

-----------------------------------------------------------------------------
(* Initial state: a fresh interpreter *)

Init ==
    /\ reg = [n \in Names |-> Missing]
    /\ ns = [d \in Descs |-> Unset]
    /\ loaded = FALSE
    /\ avail \in {f \in [Descs -> UNION {AvailOf(d) : d \in Descs}] :
                     \A d \in Descs : f[d] \in AvailOf(d)}
    /\ gen = [d \in Descs |-> 0]
    /\ pc = 0
    /\ mode = "import"
    /\ pre = reg
    /\ preNs = ns
    /\ preGen = gen
    /\ resolved = [d \in Descs |-> NotRun]
    /\ written = [d \in Descs |-> FALSE]
    /\ outcome = "none"
    /\ stable = FALSE
    /\ repeated = FALSE
    /\ inits = 0
    /\ envSteps = 0

-----------------------------------------------------------------------------
(* The environment: tests and callers between two runs of the body *)

envUnchanged == UNCHANGED <<ns, gen, pc, mode, pre, preNs, preGen, resolved,
                            written, outcome, inits>>

\* monkeypatch.setitem(sys.modules, name, fake_module)
Register(n, o) ==
    /\ pc = 0
    /\ envSteps < MaxEnvSteps
    /\ reg[n] # o
    /\ reg' = [reg EXCEPT ![n] = o]
    /\ stable' = FALSE
    /\ repeated' = FALSE
    /\ envSteps' = envSteps + 1
    /\ UNCHANGED <<loaded, avail>>
    /\ envUnchanged

\* sys.modules.pop(name, None) / monkeypatch.delitem(sys.modules, name)
Unregister(n) ==
    /\ pc = 0
    /\ envSteps < MaxEnvSteps
    /\ reg[n] # Missing
    /\ reg' = [reg EXCEPT ![n] = Missing]
    /\ stable' = FALSE
    /\ repeated' = FALSE
    /\ envSteps' = envSteps + 1
    /\ UNCHANGED <<loaded, avail>>
    /\ envUnchanged

\* sys.modules.pop('surety', None)
Unload ==
    /\ pc = 0
    /\ envSteps < MaxEnvSteps
    /\ loaded
    /\ loaded' = FALSE
    /\ stable' = FALSE
    /\ repeated' = FALSE
    /\ envSteps' = envSteps + 1
    /\ UNCHANGED <<reg, avail>>
    /\ envUnchanged

\* A sibling distribution is installed, removed or replaced.
SetAvail(d, a) ==
    /\ pc = 0
    /\ envSteps < MaxEnvSteps
    /\ avail[d] # a
    /\ avail' = [avail EXCEPT ![d] = a]
    /\ stable' = FALSE
    /\ repeated' = FALSE
    /\ envSteps' = envSteps + 1
    /\ UNCHANGED <<reg, loaded>>
    /\ envUnchanged

-----------------------------------------------------------------------------
(* The package body *)

startBody(n) ==
    /\ pc' = 1
    /\ ns' = n
    /\ pre' = reg
    /\ preNs' = n
    /\ preGen' = gen
    /\ resolved' = [d \in Descs |-> NotRun]
    /\ written' = [d \in Descs |-> FALSE]
    /\ outcome' = "running"
    /\ repeated' = (stable /\ outcome \in {"completed", "raised"})
    /\ stable' = TRUE
    /\ inits' = inits + 1
    /\ UNCHANGED <<reg, avail, gen, envSteps>>

\* `import surety` when the package is not in sys.modules: a new module
\* object with an empty namespace is registered and the body is run in it.
\* (When the package is in sys.modules the statement runs nothing.)
Import ==
    /\ pc = 0
    /\ inits < MaxInits
    /\ ~loaded
    /\ loaded' = TRUE
    /\ mode' = "import"
    /\ startBody([d \in Descs |-> Unset])

\* importlib.reload(surety): the body is run again in the old namespace.
Reload ==
    /\ pc = 0
    /\ inits < MaxInits
    /\ loaded
    /\ loaded' = TRUE
    /\ mode' = "reload"
    /\ startBody(ns)

\* One try/except/if block.  An exception that is not caught ends the body:
\* a failed first import takes the package out of sys.modules again and its
\* namespace is dropped; a failed reload keeps both.
RunBlock ==
    /\ pc > 0
    /\ LET d == Order[pc]
           b == Block(reg, ns, avail, gen, d)
       IN /\ reg' = b.reg
          /\ gen' = b.gen
          /\ resolved' = [resolved EXCEPT ![d] = b.res]
          /\ written' = [written EXCEPT ![d] = b.written]
          /\ IF b.raised
               THEN /\ pc' = 0
                    /\ outcome' = "raised"
                    /\ loaded' = (mode = "reload")
                    /\ ns' = IF mode = "reload" THEN b.ns
                             ELSE [x \in Descs |-> Unset]
               ELSE /\ pc' = IF pc < Len(Order) THEN pc + 1 ELSE 0
                    /\ outcome' = IF pc < Len(Order) THEN "running" ELSE "completed"
                    /\ loaded' = loaded
                    /\ ns' = b.ns
    /\ UNCHANGED <<avail, mode, pre, preNs, preGen, stable, repeated, inits, envSteps>>

Next ==
    \/ \E n \in Names \ {ParentName} : \E o \in FakeObjs : Register(n, o)
    \/ \E n \in Names : Unregister(n)
    \/ Unload
    \/ \E d \in Descs : \E a \in AvailOf(d) : SetAvail(d, a)
    \/ Import
    \/ Reload
    \/ RunBlock

Spec == Init /\ [][Next]_vars

-----------------------------------------------------------------------------
(* Vocabulary of the properties *)

\* The last body has ended and nothing has touched the state since.
Ended == pc = 0 /\ stable /\ outcome \in {"completed", "raised"}

\* The last body ran to its end and nothing has touched the state since.
Completed == pc = 0 /\ stable /\ outcome = "completed"

\* The whole body run from r, n, g under av, block after block.
RunBody(r, n, av, g) ==
    LET b1 == Block(r, n, av, g, Order[1])
    IN IF b1.raised THEN b1 ELSE Block(b1.reg, b1.ns, av, b1.gen, Order[2])

\* d's external module is plainly present or plainly absent: resolving it
\* executes no broken code.
PresentOrAbsent(r, av, d) ==
    r[Ext(d)] # Missing \/ av[d] \in {"absent", "nosub", "ok"}

-----------------------------------------------------------------------------
(* C1 *)

\* C1: if an object is registered under a descriptor's external name before
\* the body runs, then after the body has completed the alias entry exists
\* and is the same object as the entry at the external name, whatever the
\* alias held before and whatever the registered object is.
C1_AliasIsRegisteredObject ==
    \A d \in Descs :
        (Completed /\ pre[Ext(d)] # Missing)
            => (reg[Alias(d)] # Missing /\ reg[Alias(d)] = reg[Ext(d)])

-----------------------------------------------------------------------------
(* C2 *)

\* C2 as stated: whenever a descriptor's external module could not be
\* resolved, the alias path is absent from the registry after the body,
\* also on a reload that follows a body which registered the alias.
C2_AliasAbsentWhenExternalAbsent ==
    \A d \in Descs :
        (Completed /\ resolved[d].kind = "notfound") => reg[Alias(d)] = Missing

\* C2 amended: whenever a descriptor's external module could not be resolved
\* and the alias path was absent when the body started, the alias path is
\* absent after the body.
C2_AliasAbsentIfAbsentBefore ==
    \A d \in Descs :
        (Completed /\ resolved[d].kind = "notfound" /\ pre[Alias(d)] = Missing)
            => reg[Alias(d)] = Missing

\* A reload found the external module gone and the alias absent.
C2_Witness ==
    \E d \in Descs :
        /\ Completed /\ mode = "reload"
        /\ resolved[d].kind = "notfound"
        /\ pre[Alias(d)] = Missing

-----------------------------------------------------------------------------
(* C3 *)

\* C3: from the moment a descriptor's external module was found absent, the
\* entry at its alias path is what it was when the body started: none is
\* created, an existing one is neither removed nor replaced.
C3_AbsentLeavesAliasUntouched ==
    \A d \in Descs :
        (stable /\ resolved[d].kind = "notfound") => reg[Alias(d)] = pre[Alias(d)]

\* An absent external module met an alias entry that already existed.
C3_Witness ==
    \E d \in Descs :
        /\ Completed
        /\ resolved[d].kind = "notfound"
        /\ pre[Alias(d)] # Missing

-----------------------------------------------------------------------------
(* C4 *)

-----------------------------------------------------------------------------
(* C5 *)

\* C5: when resolving a descriptor's external module fails while the module
\* executes, with an ImportError or with any other exception, the body does
\* not complete and the alias of that descriptor is not written.
C5_OnlyAbsenceRecovered ==
    \A d \in Descs :
        (Ended /\ resolved[d].kind \in {"importerror", "error"})
            => (outcome = "raised" /\ ~written[d])

-----------------------------------------------------------------------------
(* C6 *)

\* C6: a body started in the very state the previous body ended in, with the
\* same modules installed, ends with the registry it started with: running
\* twice gives the registry of running once.
C6_Idempotent ==
    (Ended /\ repeated) => reg = pre

\* The second of two successive bodies, the first of which loaded and bound
\* an installed module.
C6_Witness ==
    /\ Completed /\ repeated
    /\ \E d \in Descs :
          /\ written[d]
          /\ resolved[d].obj = LoadedObj(d, gen[d])
          /\ gen[d] > 0

-----------------------------------------------------------------------------
(* C7 *)

\* The states of the other descriptor's external module that a second run
\* is compared with: registered or not, installed or not.
AltRegistered == {Missing} \cup FakeObjs

AltInstalled(d) == AvailOf(d) \cap {"absent", "nosub", "ok"}

\* The body run from the state the last body started in, but with the
\* external module of o registered as x and installed as a.
Twin(o, x, a) ==
    RunBody([pre EXCEPT ![Ext(o)] = x], preNs, [avail EXCEPT ![o] = a], preGen)

\* C7: when both external modules are plainly present or absent the body
\* completes, and every run that differs only in the presence of the other
\* descriptor's external module completes too and ends with the same entry
\* at this descriptor's alias path.
C7_Independent ==
    \A d \in Descs :
        (/\ Ended
         /\ PresentOrAbsent(pre, avail, d)
         /\ PresentOrAbsent(pre, avail, Other(d)))
            => /\ outcome = "completed"
               /\ \A x \in AltRegistered : \A a \in AltInstalled(Other(d)) :
                     /\ ~Twin(Other(d), x, a).raised
                     /\ Twin(Other(d), x, a).reg[Alias(d)] = reg[Alias(d)]

\* 'surety_config.config' was absent and 'surety.diff' was bound.
C7_Witness ==
    /\ Completed
    /\ resolved["config"].kind = "notfound"
    /\ written["diff"]
    /\ reg[Alias("diff")] # pre[Alias("diff")]

-----------------------------------------------------------------------------
(* C8 *)

\* C8: a block never removes a registry entry, never changes the entry at
\* the other descriptor's alias path, and changes no entry but its own alias
\* and the entries the loader adds for the external module it loads.
C8_Additive ==
    [][pc > 0 =>
          LET d == Order[pc]
          IN /\ \A n \in Names : reg[n] # Missing => reg'[n] # Missing
             /\ reg'[Alias(Other(d))] = reg[Alias(Other(d))]
             /\ \A n \in Names \ {Alias(d)} :
                   reg'[n] # reg[n]
                       => /\ reg[n] = Missing
                          /\ n = Ext(d) \/ (HasParent(d) /\ n = ParentName)
                          /\ n = Ext(d) => reg'[n] = resolved'[d].obj]_vars

\* Both aliases held other objects before and both were written.
C8_Witness ==
    /\ Completed
    /\ \A d \in Descs :
          /\ written[d]
          /\ pre[Alias(d)] # Missing
          /\ pre[Alias(d)] # reg[Alias(d)]

-----------------------------------------------------------------------------
(* C9 *)

\* C9: the config block runs before the diff block and nothing is rolled
\* back.  If resolving 'surety_diff' raised, the config block had run and
\* the alias it wrote is still registered; if resolving
\* 'surety_config.config' raised, 'surety_diff' was never resolved and
\* the entry at 'surety.diff' is what it was when the body started.
C9_OrderNoRollback ==
    (Ended /\ outcome = "raised") =>
        /\ resolved["diff"].kind = "error" =>
              /\ resolved["config"].kind # "notrun"
              /\ written["config"] =>
                    reg[Alias("config")] = resolved["config"].obj
        /\ resolved["config"].kind = "error" =>
              /\ resolved["diff"] = NotRun
              /\ ~written["diff"]
              /\ reg[Alias("diff")] = pre[Alias("diff")]
              /\ reg[Ext("diff")] = pre[Ext("diff")]
              /\ gen["diff"] = preGen["diff"]

\* 'surety_diff' raised after the config block had written a new alias.
C9_Witness ==
    /\ Ended /\ outcome = "raised"
    /\ resolved["diff"].kind = "error"
    /\ written["config"]
    /\ pre[Alias("config")] # reg[Alias("config")]

-----------------------------------------------------------------------------
(* C10 *)

\* C10: after a completed body, for each descriptor, the package attribute
\* is None or the object resolution returned in that body; the alias was
\* written exactly when resolution returned an object that is true; and
\* when it was written the attribute, the alias entry and the entry at the
\* external name are one object.
C10_AttributeAndAlias ==
    Completed =>
        \A d \in Descs :
            /\ ns[d] = NoneObj \/ (resolved[d].kind = "ok" /\ ns[d] = resolved[d].obj)
            /\ written[d] <=> (resolved[d].kind = "ok" /\ Truthy(resolved[d].obj))
            /\ written[d] =>
                  /\ ns[d] = reg[Alias(d)]
                  /\ reg[Alias(d)] = reg[Ext(d)]
            /\ ~written[d] => reg[Alias(d)] = pre[Alias(d)]

\* One descriptor was bound, the other resolved to an object that is false.
C10_Witness ==
    /\ Completed
    /\ \E d \in Descs :
          /\ written[d]
          /\ resolved[Other(d)].kind = "ok"
          /\ ~written[Other(d)]

====
